---- MODULE Spec2Model ----
(***************************************************************************)
(* A model of analyze_portfolio.py: the categorisation waterfall           *)
(* (categorize_holding) and the allocation / DCA arithmetic of             *)
(* analyze_portfolio.                                                      *)
(*                                                                         *)
(* Text is a sequence of one-character strings, so that endswith, in,      *)
(* upper, isalpha, len and split are computed on the characters.  A date   *)
(* written in a text is one atom of the sequence (the text                 *)
(* \d{1,2}/\d{1,2}/\d{4} that the regular expression of line 41 finds).    *)
(* A spreadsheet cell that may be empty is a record [nan, s]: nan for the  *)
(* empty cell (pandas NaN), s its text otherwise.                          *)
(* Money is counted in whole dollars, percentages in thousandths.          *)
(***************************************************************************)
EXTENDS Integers, Sequences, FiniteSets, TLC

VARIABLES
    holding,      \* categorize_holding: the holding row given
    rules,        \* the Config_TickerMap rows (config_ticker_map_df)
    result,       \* categorize_holding: what the call did (returned / raised)
    pc,           \* position of the program
    \* the input workbook of analyze_portfolio
    targets_tab,             \* rows of the tab Config_Targets
    dca_tab_exists,          \* whether the workbook has a tab Config_DCA
    dca_tab,                 \* rows of the tab Config_DCA
    data_tab,                \* rows of the Data_ tab
    \* the locals of analyze_portfolio
    config_targets_df,
    config_dca_df,
    all_holdings_df,
    total_portfolio_value,
    current_allocations,
    summary_df,
    reporting_summary_df,
    underweight_df,
    rebalancing_plan,
    \* the effects of analyze_portfolio
    printed,                 \* the diagnostics printed so far
    writer,                  \* the ExcelWriter: "none", "open" or "closed"
    sheets,                  \* the sheets given to the writer so far
    output_file              \* the output file: whether it was saved, and its sheets

workbook == <<targets_tab, dca_tab_exists, dca_tab, data_tab>>

locals == <<config_targets_df, config_dca_df, all_holdings_df, total_portfolio_value,
            current_allocations, summary_df, reporting_summary_df, underweight_df,
            rebalancing_plan>>

effects == <<printed, writer, sheets, output_file>>

vars == <<holding, rules, result, pc, workbook, locals, effects>>

----------------------------------------------------------------------------
(* Bounds of the model *)

MaxRules == 2

MaxHoldings == 2

\* holdings are worth up to so many units of money
MaxValue == 2

----------------------------------------------------------------------------
(* Text and cells *)

NaN == [nan |-> TRUE, s |-> <<>>]

Str(t) == [nan |-> FALSE, s |-> t]

\* str(x) of a cell: the text itself, "nan" for an empty cell
PyStr(cell) == IF cell.nan THEN <<"n", "a", "n">> ELSE cell.s

UpperChar(c) ==
    CASE c = "a" -> "A" [] c = "b" -> "B" [] c = "c" -> "C" [] c = "d" -> "D"
      [] c = "n" -> "N" [] c = "x" -> "X" [] OTHER -> c

\* str.upper()
Upper(t) == [i \in 1..Len(t) |-> UpperChar(t[i])]

Letters == {"A", "B", "C", "D", "E", "N", "R", "S", "T", "X",
            "a", "b", "c", "d", "n", "x"}

Digits == {"0", "1", "2", "3", "4", "5", "6", "7", "8", "9"}

\* str.isalpha(): at least one character and all of them letters
IsAlpha(t) == Len(t) > 0 /\ \A i \in 1..Len(t) : t[i] \in Letters

\* t.endswith(p)
EndsWith(t, p) ==
    /\ Len(p) <= Len(t)
    /\ SubSeq(t, Len(t) - Len(p) + 1, Len(t)) = p

\* p in t
Contains(p, t) ==
    \E i \in 1..(Len(t) - Len(p) + 1) : SubSeq(t, i, i + Len(p) - 1) = p

----------------------------------------------------------------------------
(* Dates.  A date atom stands for a date text or date cell; DaysOut is    *)
(* (maturity_dt - datetime.now()).days for it.                             *)

ParseableDates == {"d-1", "d+548", "d+730", "d+731", "d+1826", "d+3652",
                   "d+3653", "d+5479"}

\* matches the pattern of line 41, but names no day of the calendar:
\* pd.to_datetime raises ValueError
BadDateText == "13/45/2030"

\* a text cell that is no date: pd.to_datetime raises ValueError
NotADate == "soon"

\* a timezone-aware date cell: subtracting the naive datetime.now() from it
\* raises TypeError
TzAwareDate == "tz-aware"

\* what re.search(r'\d{1,2}/\d{1,2}/\d{4}', ...) can find
DateShaped == ParseableDates \cup {BadDateText}

DaysOut(d) ==
    CASE d = "d-1" -> 0 - 1
      [] d = "d+548" -> 548
      [] d = "d+730" -> 730
      [] d = "d+731" -> 731
      [] d = "d+1826" -> 1826
      [] d = "d+3652" -> 3652
      [] d = "d+3653" -> 3653
      [] d = "d+5479" -> 5479

\* the cell of an absent 'Maturity Date'
NoDate == "NaN"

----------------------------------------------------------------------------
(* categorize_holding *)

Short == "Bonds - Short (0-2y)"

Interm == "Bonds - Interm (3-10y)"

Long == "Bonds - Long (10+y)"

Uncategorized == "Uncategorized"

\* 365.25 days per year, in hundredths of a day
DaysPerYearX100 == 36525

\* days / 365.25 <= years
YearsToMaturityLe(days, years) == days * 100 <= years * DaysPerYearX100

\* what a call, or a part of it, did: it returned a value, it raised, or it
\* fell through to the code after it
Return(v) == [returned |-> TRUE, value |-> v, raised |-> "none"]

Raise(e) == [returned |-> FALSE, value |-> "", raised |-> e]

FellThrough == [returned |-> FALSE, value |-> "", raised |-> "none"]

\* a; b: b runs only when a neither returned nor raised
Then(a, b) == IF a.returned \/ a.raised # "none" THEN a ELSE b

RulesOfType(rs, type) == SelectSeq(rs, LAMBDA r : r.RuleType = type)

\* lines 24-26
RECURSIVE ExactMatchLoop(_, _)
ExactMatchLoop(symbol, rs) ==
    IF rs = <<>> THEN FellThrough
    ELSE LET rule == Head(rs) IN
         IF ~rule.Parameter.nan /\ symbol = rule.Parameter.s
         THEN Return(rule.MasterCategory)
         ELSE ExactMatchLoop(symbol, Tail(rs))

\* lines 28-30
RECURSIVE EndsWithLoop(_, _)
EndsWithLoop(symbol, rs) ==
    IF rs = <<>> THEN FellThrough
    ELSE LET rule == Head(rs) IN
         IF EndsWith(symbol, PyStr(rule.Parameter))
         THEN Return(rule.MasterCategory)
         ELSE EndsWithLoop(symbol, Tail(rs))

\* Bucket with the first threshold at 3 years, the lower end of the label
\* '3-10y': C3 tells it from the code
BucketShortUpTo3(days) ==
    IF YearsToMaturityLe(days, 3) THEN Return(Short)
    ELSE IF YearsToMaturityLe(days, 10) THEN Return(Interm)
    ELSE Return(Long)

\* lines 36-38 and 46-48
Bucket(days) ==
    IF YearsToMaturityLe(days, 2) THEN Return(Short)
    ELSE IF YearsToMaturityLe(days, 10) THEN Return(Interm)
    ELSE Return(Long)

\* MaturityExcept without TypeError: C4 tells it from the code
MaturityExceptValueErrorOnly == {"ValueError"}

\* the exceptions the two try blocks of the maturity tier catch
MaturityExcept == {"ValueError", "TypeError"}

\* a try block of the maturity tier: pd.to_datetime, the subtraction and the
\* buckets, with the except clause of lines 39 and 49
TryMaturity(d) ==
    LET body == IF d \in ParseableDates THEN Bucket(DaysOut(d))
                ELSE IF d = TzAwareDate THEN Raise("TypeError")
                ELSE Raise("ValueError")
    IN  IF body.raised \in MaturityExcept THEN FellThrough ELSE body

\* re.search of line 41: the first date-shaped text of the description
DateMatch(description) ==
    LET at == {i \in 1..Len(description) : description[i] \in DateShaped}
    IN  IF at = {} THEN <<>>
        ELSE <<description[CHOOSE i \in at : \A j \in at : i <= j]>>

\* lines 32-49
MaturityTier(manual_maturity_date, description) ==
    IF manual_maturity_date # NoDate
    THEN TryMaturity(manual_maturity_date)
    ELSE IF \/ Contains(<<"T", "R", "E", "A", "S">>, description)
            \/ Contains(<<"C", "D">>, description)
         THEN LET date_match == DateMatch(description) IN
              IF date_match # <<>> THEN TryMaturity(date_match[1])
              ELSE FellThrough
         ELSE FellThrough

\* ContainsDescLoop without upper() on the parameter: C2 tells it from the
\* code
RECURSIVE ContainsDescLoopCaseSensitive(_, _)
ContainsDescLoopCaseSensitive(description, rs) ==
    IF rs = <<>> THEN FellThrough
    ELSE LET rule == Head(rs) IN
         IF Contains(PyStr(rule.Parameter), description)
         THEN Return(rule.MasterCategory)
         ELSE ContainsDescLoopCaseSensitive(description, Tail(rs))

\* lines 51-53
RECURSIVE ContainsDescLoop(_, _)
ContainsDescLoop(description, rs) ==
    IF rs = <<>> THEN FellThrough
    ELSE LET rule == Head(rs) IN
         IF Contains(Upper(PyStr(rule.Parameter)), description)
         THEN Return(rule.MasterCategory)
         ELSE ContainsDescLoop(description, Tail(rs))

\* t.split(sep): the parts of t between the separators
RECURSIVE Split(_, _)
Split(t, sep) ==
    IF \A i \in 1..Len(t) : t[i] # sep THEN <<t>>
    ELSE LET k == CHOOSE i \in 1..Len(t) :
                      t[i] = sep /\ \A j \in 1..(i - 1) : t[j] # sep
         IN  <<SubSeq(t, 1, k - 1)>> \o Split(SubSeq(t, k + 1, Len(t)), sep)

DigitValue(c) ==
    CASE c = "0" -> 0 [] c = "1" -> 1 [] c = "2" -> 2 [] c = "3" -> 3
      [] c = "4" -> 4 [] c = "5" -> 5 [] c = "6" -> 6 [] c = "7" -> 7
      [] c = "8" -> 8 [] c = "9" -> 9

RECURSIVE DigitsValue(_)
DigitsValue(t) ==
    IF t = <<>> THEN 0
    ELSE DigitsValue(SubSeq(t, 1, Len(t) - 1)) * 10 + DigitValue(t[Len(t)])

\* int(t) of a text of the model's alphabet: its value, or ValueError
IsInt(t) == Len(t) > 0 /\ \A i \in 1..Len(t) : t[i] \in Digits

\* min_len, max_len = map(int, rule['Parameter'].split('-')): the exception
\* it raises, "none" when it raises none
LenAlphaError(parameter) ==
    IF parameter.nan THEN "AttributeError"
    ELSE LET parts == Split(parameter.s, "-") IN
         IF Len(parts) # 2 THEN "ValueError"
         ELSE IF ~IsInt(parts[1]) \/ ~IsInt(parts[2]) THEN "ValueError"
         ELSE "none"

\* the try block of lines 56-59 for one rule
LenAlphaBody(symbol, rule) ==
    LET err == LenAlphaError(rule.Parameter) IN
    IF err # "none" THEN Raise(err)
    ELSE LET parts == Split(rule.Parameter.s, "-")
             min_len == DigitsValue(parts[1])
             max_len == DigitsValue(parts[2])
         IN  IF min_len <= Len(symbol) /\ Len(symbol) <= max_len /\ IsAlpha(symbol)
             THEN Return(rule.MasterCategory)
             ELSE FellThrough

\* lines 55-60: the bare except of line 60 catches every exception
RECURSIVE LenAlphaLoop(_, _)
LenAlphaLoop(symbol, rs) ==
    IF rs = <<>> THEN FellThrough
    ELSE LET body == LenAlphaBody(symbol, Head(rs))
             tried == IF body.raised # "none" THEN FellThrough ELSE body
         IN  Then(tried, LenAlphaLoop(symbol, Tail(rs)))

\* categorize_holding with the ENDS_WITH tier before the EXACT_MATCH tier: C1
\* tells it from the code
categorize_holding_EndsWithFirst(h, rs) ==
    LET symbol == PyStr(h.Symbol)
        description == Upper(PyStr(h.Description))
        manual_maturity_date == h.MaturityDate
    IN  Then(EndsWithLoop(symbol, RulesOfType(rs, "ENDS_WITH")),
        Then(ExactMatchLoop(symbol, RulesOfType(rs, "EXACT_MATCH")),
        Then(MaturityTier(manual_maturity_date, description),
        Then(ContainsDescLoop(description, RulesOfType(rs, "CONTAINS_DESC")),
        Then(LenAlphaLoop(symbol, RulesOfType(rs, "LEN_ALPHA")),
             Return(Uncategorized))))))

\* lines 15-62
categorize_holding(h, rs) ==
    LET symbol == PyStr(h.Symbol)
        description == Upper(PyStr(h.Description))
        manual_maturity_date == h.MaturityDate
    IN  Then(ExactMatchLoop(symbol, RulesOfType(rs, "EXACT_MATCH")),
        Then(EndsWithLoop(symbol, RulesOfType(rs, "ENDS_WITH")),
        Then(MaturityTier(manual_maturity_date, description),
        Then(ContainsDescLoop(description, RulesOfType(rs, "CONTAINS_DESC")),
        Then(LenAlphaLoop(symbol, RulesOfType(rs, "LEN_ALPHA")),
             Return(Uncategorized))))))

----------------------------------------------------------------------------
(* The inputs of categorize_holding that the specifications draw from *)

Symbols == {Str(<<"A", "B">>), Str(<<"A", "B", "C">>), Str(<<"A", "*", "*">>), NaN}

Descriptions ==
    { Str(<<"C", "D", " ", "d+548">>),
      Str(<<"c", "d", " ", BadDateText, " ", "d+548">>),
      Str(<<"T", "R", "E", "A", "S", " ", "d+3653">>),
      Str(<<"A", "B", " ", "d+1826">>),
      NaN }

MaturityCells == {NoDate, "d+731", NotADate, TzAwareDate}

Holdings ==
    [Symbol : Symbols, Description : Descriptions, MaturityDate : MaturityCells]

RuleCategories == {"Stocks", "Cash"}

ParametersOf(type) ==
    CASE type = "EXACT_MATCH" -> {Str(<<"A", "B">>), Str(<<"A", "*", "*">>)}
      [] type = "ENDS_WITH" -> {Str(<<"*", "*">>), Str(<<"B">>)}
      [] type = "CONTAINS_DESC" -> {Str(<<"c", "d">>), NaN}
      [] type = "LEN_ALPHA" -> {Str(<<"1", "-", "2">>), Str(<<"2", "-", "3">>),
                                Str(<<"x", "-", "3">>), Str(<<"3">>), NaN}
      [] type = "STARTS_WITH" -> {Str(<<"A">>)}

RuleTypes == {"EXACT_MATCH", "ENDS_WITH", "CONTAINS_DESC", "LEN_ALPHA", "STARTS_WITH"}

Rules ==
    UNION { [RuleType : {type}, Parameter : ParametersOf(type),
             MasterCategory : RuleCategories] : type \in RuleTypes }

RuleLists == UNION { [1..n -> Rules] : n \in 0..MaxRules }

----------------------------------------------------------------------------
(* analyze_portfolio.  Money is in whole dollars; a percentage p is the    *)
(* whole number 1000 * p.                                                  *)

\* 1.0, as a percentage
One == 1000

\* SUM_TOLERANCE = 0.001, as a percentage
SUM_TOLERANCE == 1

\* a numeric cell of the workbook: a number, or a text that is none
Num(v) == [ok |-> TRUE, v |-> v]

NotANumber == [ok |-> FALSE, v |-> 0]

\* pd.to_numeric(cell, errors='coerce') followed by fillna(0)
ToNumericFill0(cell) == IF cell.ok THEN cell.v ELSE 0

\* the Master Category of a row whose cell is empty
NaNCategory == "<NaN>"

\* str.lower() of a Master Category of the model
Lower(category) ==
    CASE category \in {"Total", "TOTAL", "total"} -> "total"
      [] category = "Stocks" -> "stocks"
      [] category = "Cash" -> "cash"
      [] OTHER -> category

abs(x) == IF x < 0 THEN 0 - x ELSE x

\* Series.sum() of a sequence of numbers
RECURSIVE Sum(_)
Sum(xs) == IF xs = <<>> THEN 0 ELSE Head(xs) + Sum(Tail(xs))

\* the state of a run before analyze_portfolio has done anything
NoLocals ==
    /\ config_targets_df = <<>>
    /\ config_dca_df = <<>>
    /\ all_holdings_df = <<>>
    /\ total_portfolio_value = 0
    /\ current_allocations = <<>>
    /\ summary_df = <<>>
    /\ reporting_summary_df = <<>>
    /\ underweight_df = <<>>
    /\ rebalancing_plan = <<>>

NoEffects ==
    /\ printed = {}
    /\ writer = "none"
    /\ sheets = {}
    /\ output_file = [saved |-> FALSE, sheets |-> {}]

NoWorkbook ==
    /\ targets_tab = <<>>
    /\ dca_tab_exists = FALSE
    /\ dca_tab = <<>>
    /\ data_tab = <<>>

\* the except clause of line 257; an exception raised inside the with block
\* of line 160 leaves it through the writer's __exit__, which closes the
\* writer and so saves the sheets written so far
UnexpectedError ==
    /\ printed' = printed \cup {"An unexpected error occurred"}
    /\ writer' = IF writer = "open" THEN "closed" ELSE writer
    /\ output_file' = IF writer = "open" THEN [saved |-> TRUE, sheets |-> sheets]
                                        ELSE output_file
    /\ pc' = "done"

\* TargetSumIsOff with >= for >: C8 tells it from the code
TargetSumIsOffInclusive(target_sum) == abs(target_sum - One) >= SUM_TOLERANCE

\* line 101
TargetSumIsOff(target_sum) == abs(target_sum - One) > SUM_TOLERANCE

\* lines 66-104
ReadConfig ==
    /\ pc = "start"
    /\ config_dca_df' =
          IF dca_tab_exists
          THEN [i \in DOMAIN dca_tab |->
                  [MasterCategory |-> dca_tab[i].MasterCategory,
                   TimeHorizon |-> ToNumericFill0(dca_tab[i].TimeHorizon),
                   MonthlyContribution |-> ToNumericFill0(dca_tab[i].MonthlyContribution)]]
          ELSE <<>>
    /\ config_targets_df' =
          SelectSeq(targets_tab, LAMBDA r : Lower(r.MasterCategory) # "total")
    /\ LET target_sum ==
               Sum([i \in DOMAIN config_targets_df' |-> config_targets_df'[i].TargetPercent])
       IN  printed' = printed
                \cup {IF dca_tab_exists THEN "MONITOR mode" ELSE "DISCOVER mode"}
                \cup (IF TargetSumIsOff(target_sum)
                      THEN {"WARNING: Target percentages"} ELSE {})
    /\ pc' = "categorize"
    /\ UNCHANGED <<holding, rules, result, workbook, all_holdings_df,
                   total_portfolio_value, current_allocations, summary_df,
                   reporting_summary_df, underweight_df, rebalancing_plan,
                   writer, sheets, output_file>>

\* lines 106-122
CategorizeAll ==
    /\ pc = "categorize"
    /\ LET called == [i \in DOMAIN data_tab |-> categorize_holding(data_tab[i], rules)]
       IN  IF \E i \in DOMAIN called : called[i].raised # "none"
           THEN UnexpectedError /\ UNCHANGED <<all_holdings_df, sheets>>
           ELSE /\ all_holdings_df' =
                      [i \in DOMAIN data_tab |->
                         [Symbol |-> data_tab[i].Symbol,
                          Description |-> data_tab[i].Description,
                          MaturityDate |-> data_tab[i].MaturityDate,
                          CurrentValue |-> data_tab[i].CurrentValue,
                          MasterCategory |-> called[i].value]]
                /\ printed' = printed \cup
                      (IF \E i \in DOMAIN called : called[i].value = Uncategorized
                       THEN {"WARNING: Uncategorized Holdings Found"}
                       ELSE {"All holdings were categorized successfully."})
                /\ pc' = "summarize"
                /\ UNCHANGED <<writer, sheets, output_file>>
    /\ UNCHANGED <<holding, rules, result, workbook, config_targets_df, config_dca_df,
                   total_portfolio_value, current_allocations, summary_df,
                   reporting_summary_df, underweight_df, rebalancing_plan>>

\* groupby('Master Category')['Current Value'].sum(): one sum per category
\* of the rows; groupby leaves out the rows whose key is NaN
GroupByMasterCategory(rows) ==
    LET keys == {rows[i].MasterCategory : i \in DOMAIN rows} \ {NaNCategory}
    IN  [c \in keys |->
           LET of_c == SelectSeq(rows, LAMBDA r : r.MasterCategory = c)
           IN  Sum([i \in DOMAIN of_c |-> of_c[i].CurrentValue])]

\* lines 124-128
Summarize ==
    /\ pc = "summarize"
    /\ all_holdings_df' =
          [i \in DOMAIN all_holdings_df |->
             [all_holdings_df[i] EXCEPT
                 !.CurrentValue = ToNumericFill0(all_holdings_df[i].CurrentValue)]]
    /\ total_portfolio_value' =
          Sum([i \in DOMAIN all_holdings_df' |-> all_holdings_df'[i].CurrentValue])
    /\ current_allocations' = GroupByMasterCategory(all_holdings_df')
    /\ pc' = "validate"
    /\ UNCHANGED <<holding, rules, result, workbook, config_targets_df, config_dca_df,
                   summary_df, reporting_summary_df, underweight_df, rebalancing_plan,
                   effects>>

\* lines 130-136
Validate ==
    /\ pc = "validate"
    /\ LET defined_categories ==
               {config_targets_df[i].MasterCategory : i \in DOMAIN config_targets_df}
           found_categories == DOMAIN current_allocations \ {Uncategorized}
           missing_in_config == found_categories \ defined_categories
       IN  IF missing_in_config # {}
           THEN /\ printed' = printed \cup {"CRITICAL ERROR: Category Mismatch Found"}
                /\ pc' = "done"
           ELSE /\ pc' = "compute"
                /\ UNCHANGED printed
    /\ UNCHANGED <<holding, rules, result, workbook, locals, writer, sheets, output_file>>

\* a quotient a / b of two amounts
Ratio(a, b) == [num |-> a, den |-> b]

\* the number 0 assigned to a percentage
ZeroRatio == [num |-> 0, den |-> 1]

\* CurrentPercent without the guard on the total: C7 tells it from the code
CurrentPercentUnguarded(current_amount, total) == Ratio(current_amount, total)

\* lines 140-144: 'Current Percent' of a row of the master summary
CurrentPercent(current_amount, total) ==
    IF total > 0 THEN Ratio(current_amount, total) ELSE ZeroRatio

\* lines 140-144: 'Target Amount' of a row of the master summary
TargetAmount(target_percent, total) ==
    IF total > 0 THEN (target_percent * total) \div One ELSE 0

\* lines 138-145: merge(config_targets_df, current_allocations, how='left')
\* .fillna(0) and the columns computed from it
MasterSummary(targets, allocations, total) ==
    [i \in DOMAIN targets |->
       LET t == targets[i]
           current_amount == IF t.MasterCategory \in DOMAIN allocations
                             THEN allocations[t.MasterCategory] ELSE 0
       IN  [MasterCategory |-> t.MasterCategory,
            TargetPercent |-> t.TargetPercent,
            ReportingCategory |-> t.ReportingCategory,
            CurrentAmount |-> current_amount,
            TargetAmount |-> TargetAmount(t.TargetPercent, total),
            CurrentPercent |-> CurrentPercent(current_amount, total),
            Difference |-> current_amount - TargetAmount(t.TargetPercent, total)]]

\* lines 147-152: the sums per 'Reporting Category' and their percentages
ReportingSummary(summary, total) ==
    [r \in {summary[i].ReportingCategory : i \in DOMAIN summary} |->
       LET of_r == SelectSeq(summary, LAMBDA row : row.ReportingCategory = r)
           current_amount == Sum([i \in DOMAIN of_r |-> of_r[i].CurrentAmount])
           target_amount == Sum([i \in DOMAIN of_r |-> of_r[i].TargetAmount])
       IN  [CurrentAmount |-> current_amount,
            TargetAmount |-> target_amount,
            CurrentPercent |-> IF total > 0 THEN Ratio(current_amount, total)
                               ELSE ZeroRatio,
            TargetPercent |-> IF total > 0 THEN Ratio(target_amount, total)
                              ELSE ZeroRatio]]

\* lines 154-155
Underweight(summary) ==
    LET under == SelectSeq(summary, LAMBDA row : row.Difference < 0)
    IN  [i \in DOMAIN under |->
           [MasterCategory |-> under[i].MasterCategory,
            Difference |-> under[i].Difference,
            AmountUnderTarget |-> 0 - under[i].Difference]]

\* lines 138-157
Compute ==
    /\ pc = "compute"
    /\ summary_df' =
          MasterSummary(config_targets_df, current_allocations, total_portfolio_value)
    /\ reporting_summary_df' = ReportingSummary(summary_df', total_portfolio_value)
    /\ underweight_df' = Underweight(summary_df')
    /\ pc' = "write"
    /\ UNCHANGED <<holding, rules, result, workbook, config_targets_df, config_dca_df,
                   all_holdings_df, total_portfolio_value, current_allocations,
                   rebalancing_plan, effects>>

\* lines 159-186: the writer is opened; the configuration tabs, the data
\* tabs, their verified copies and the two summaries are written
WriteSummaries ==
    /\ pc = "write"
    /\ writer' = "open"
    /\ sheets' = {"Config_Targets", "Config_TickerMap"}
                   \cup (IF dca_tab_exists THEN {"Config_DCA"} ELSE {})
                   \cup {"Data_1", "Verified_Data_1"}
                   \cup {"Output_MasterSummary", "Output_GrowthVsStable"}
    /\ pc' = IF dca_tab_exists THEN "monitor" ELSE "discover"
    /\ UNCHANGED <<holding, rules, result, workbook, locals, printed, output_file>>

\* lines 188-216: DISCOVER mode
WriteDcaPlanning ==
    /\ pc = "discover"
    /\ sheets' = IF underweight_df # <<>>
                 THEN sheets \cup {"Output_DCA_Options", "Output_DCA_Template"}
                 ELSE sheets
    /\ pc' = "finish"
    /\ UNCHANGED <<holding, rules, result, workbook, locals, printed, writer, output_file>>

RECURSIVE Flatten(_)
Flatten(seqs) == IF seqs = <<>> THEN <<>> ELSE Head(seqs) \o Flatten(Tail(seqs))

\* line 220: merge(summary_df, config_dca_df, on='Master Category',
\* how='left').fillna(0): a row per Config_DCA row of the category, one row
\* of zeros for a category without any
Projections(summary, dca) ==
    Flatten([i \in DOMAIN summary |->
       LET of_i == SelectSeq(dca, LAMBDA d : d.MasterCategory = summary[i].MasterCategory)
           row(horizon, contribution) ==
               [MasterCategory |-> summary[i].MasterCategory,
                Difference |-> summary[i].Difference,
                TimeHorizon |-> horizon,
                MonthlyContribution |-> contribution]
       IN  IF of_i = <<>> THEN <<row(0, 0)>>
           ELSE [j \in DOMAIN of_i |->
                   row(of_i[j].TimeHorizon, of_i[j].MonthlyContribution)]])

\* RequiredMonthlyInvestment per year instead of per month: C9 tells it
\* from the code
RequiredYearlyInvestment(amount_under_target, horizon) ==
    IF horizon > 0 THEN amount_under_target \div horizon ELSE 0

\* line 225
RequiredMonthlyInvestment(amount_under_target, horizon) ==
    IF horizon > 0 THEN amount_under_target \div (horizon * 12) ELSE 0

\* lines 224-227: the columns added to a row of underweight_df
ProjectionRow(r) ==
    [MasterCategory |-> r.MasterCategory,
     Difference |-> r.Difference,
     TimeHorizon |-> r.TimeHorizon,
     MonthlyContribution |-> r.MonthlyContribution,
     AmountUnderTarget |-> 0 - r.Difference,
     RequiredMonthlyInvestment |->
         RequiredMonthlyInvestment(0 - r.Difference, r.TimeHorizon),
     ProjectedTotalContribution |-> r.MonthlyContribution * r.TimeHorizon * 12,
     MonthlyShortfallSurplus |->
         r.MonthlyContribution - RequiredMonthlyInvestment(0 - r.Difference, r.TimeHorizon)]

\* lines 219-233: MONITOR mode, the projections.  An empty underweight_df
\* gets none of the columns of lines 224-227.
WriteProjections ==
    /\ pc = "monitor"
    /\ LET projections_df == Projections(summary_df, config_dca_df)
           under == SelectSeq(projections_df, LAMBDA r : r.Difference < 0)
       IN  IF under # <<>>
           THEN /\ underweight_df' = [i \in DOMAIN under |-> ProjectionRow(under[i])]
                /\ sheets' = sheets \cup {"Output_Projections"}
           ELSE /\ underweight_df' = <<>>
                /\ UNCHANGED sheets
    /\ pc' = "rebalance"
    /\ UNCHANGED <<holding, rules, result, workbook, config_targets_df, config_dca_df,
                   all_holdings_df, total_portfolio_value, current_allocations,
                   summary_df, reporting_summary_df, rebalancing_plan,
                   printed, writer, output_file>>

\* sort_values('Difference $', ascending=False): the orders of the rows
\* with no row before a row of a greater difference
SortedByDifferenceDescending(rows) ==
    {[i \in DOMAIN rows |-> rows[p[i]]] :
        p \in {q \in [DOMAIN rows -> DOMAIN rows] :
                 /\ \A i, j \in DOMAIN rows : i # j => q[i] # q[j]
                 /\ \A i, j \in DOMAIN rows :
                       i < j => rows[q[i]].Difference >= rows[q[j]].Difference}}

Amount(x) == [text |-> "$", amount |-> x]

NoAmount(text) == [text |-> text, amount |-> 0]

\* lines 241-248
RebalancingPlan(under, new_cash_contribution, overweight_sorted, funding_shortfall) ==
    [i \in DOMAIN under |->
        [Action |-> "INVEST", Category |-> under[i].MasterCategory,
         MonthlyPlan |-> Amount(under[i].RequiredMonthlyInvestment)]]
    \o <<[Action |-> "---", Category |-> "---", MonthlyPlan |-> NoAmount("---")],
         [Action |-> "SOURCE", Category |-> "From New Cash",
          MonthlyPlan |-> Amount(new_cash_contribution)]>>
    \o [i \in DOMAIN overweight_sorted |->
        [Action |-> "SOURCE", Category |-> overweight_sorted[i].MasterCategory,
         MonthlyPlan |-> NoAmount("None")]]
    \o <<[Action |-> "SHORTFALL", Category |-> "Amount to source from overweight assets",
          MonthlyPlan |-> Amount(funding_shortfall)]>>

\* lines 235-253: MONITOR mode, the rebalancing plan.  Line 236 reads the
\* column 'Required Monthly Investment', which an empty underweight_df does
\* not have: KeyError.
WriteRebalancingPlan ==
    /\ pc = "rebalance"
    /\ LET from_new_cash ==
               SelectSeq(config_dca_df, LAMBDA d : d.MasterCategory = "_FROM_NEW_CASH_")
           new_cash_contribution ==
               Sum([i \in DOMAIN from_new_cash |-> from_new_cash[i].MonthlyContribution])
           total_required_investment ==
               Sum([i \in DOMAIN underweight_df |->
                      underweight_df[i].RequiredMonthlyInvestment])
           funding_shortfall == total_required_investment - new_cash_contribution
           overweight_df == SelectSeq(summary_df, LAMBDA row : row.Difference > 0)
       IN  IF underweight_df = <<>>
           THEN UnexpectedError /\ UNCHANGED <<rebalancing_plan, sheets>>
           ELSE /\ IF funding_shortfall > 0
                   THEN /\ \E sorted \in SortedByDifferenceDescending(overweight_df) :
                              rebalancing_plan' =
                                  RebalancingPlan(underweight_df, new_cash_contribution,
                                                  sorted, funding_shortfall)
                        /\ sheets' = sheets \cup {"Output_RebalancingPlan"}
                   ELSE UNCHANGED <<rebalancing_plan, sheets>>
                /\ pc' = "finish"
                /\ UNCHANGED <<printed, writer, output_file>>
    /\ UNCHANGED <<holding, rules, result, workbook, config_targets_df, config_dca_df,
                   all_holdings_df, total_portfolio_value, current_allocations,
                   summary_df, reporting_summary_df, underweight_df>>

\* the end of the with block of line 160, which closes the writer and saves
\* the file, and line 255
Finish ==
    /\ pc = "finish"
    /\ writer' = "closed"
    /\ output_file' = [saved |-> TRUE, sheets |-> sheets]
    /\ printed' = printed \cup {"SUCCESS"}
    /\ pc' = "done"
    /\ UNCHANGED <<holding, rules, result, workbook, locals, sheets>>

NextRun ==
    \/ ReadConfig
    \/ CategorizeAll
    \/ Summarize
    \/ Validate
    \/ Compute
    \/ WriteSummaries
    \/ WriteDcaPlanning
    \/ WriteProjections
    \/ WriteRebalancingPlan
    \/ Finish

----------------------------------------------------------------------------
(* The workbooks that the specifications of analyze_portfolio draw from *)

\* the unit of the holdings' values: a multiple of 1000 and of 12 * 2, so
\* that target amounts and monthly amounts over 1 and 2 years are whole
HoldingUnit == 1000 * 12 * 2

DataRow(symbol, value) ==
    [Symbol |-> Str(<<symbol>>), Description |-> NaN, MaturityDate |-> NoDate,
     CurrentValue |-> value]

\* A is a stock, B is cash, X is of the category given, any other symbol is
\* left uncategorized
RunRules(category_of_X) ==
    << [RuleType |-> "EXACT_MATCH", Parameter |-> Str(<<"A">>), MasterCategory |-> "Stocks"],
       [RuleType |-> "EXACT_MATCH", Parameter |-> Str(<<"B">>), MasterCategory |-> "Cash"],
       [RuleType |-> "EXACT_MATCH", Parameter |-> Str(<<"X">>),
        MasterCategory |-> category_of_X] >>

TargetRow(category, percent, reporting) ==
    [MasterCategory |-> category, TargetPercent |-> percent,
     ReportingCategory |-> reporting]

DcaRow(category, horizon, contribution) ==
    [MasterCategory |-> category, TimeHorizon |-> horizon,
     MonthlyContribution |-> contribution]

NoCall ==
    /\ holding = [Symbol |-> NaN, Description |-> NaN, MaturityDate |-> NoDate]
    /\ result = FellThrough

\* the holdings and their categories vary; the rule of X has an empty
\* Master Category cell or names a category that is no target
InitRun ==
    /\ NoCall /\ NoLocals /\ NoEffects
    /\ pc = "start"
    /\ rules \in {RunRules(NaNCategory), RunRules("Crypto")}
    /\ data_tab \in UNION { [1..n -> { DataRow(symbol, value) :
                                          symbol \in {"A", "B", "X", "Z"},
                                          value \in {Num(0), Num(HoldingUnit), NotANumber} }]
                            : n \in 1..MaxHoldings }
    /\ targets_tab \in
          { <<TargetRow("Stocks", 600, "Growth"), TargetRow("Cash", 400, "Stable")>>,
            <<TargetRow("Stocks", 600, "Growth"), TargetRow("Cash", 400, "Stable"),
              TargetRow("Total", 1000, "")>>,
            <<TargetRow("Stocks", 1000, "Growth")>> }
    /\ \E dca \in { <<FALSE, <<>> >>,
                    <<TRUE, <<DcaRow("Stocks", Num(1), Num(0))>> >>,
                    <<TRUE, <<DcaRow("Stocks", NotANumber, Num(100)),
                              DcaRow("_FROM_NEW_CASH_", Num(0), Num(0 - 100))>> >> } :
          dca_tab_exists = dca[1] /\ dca_tab = dca[2]

SpecRun == InitRun /\ [][NextRun]_vars

\* the targets, the Config_DCA rows and the amounts vary
PlanValues == {k * HoldingUnit : k \in (0 - 1)..MaxValue}

PlanTargets ==
    { <<TargetRow("Stocks", p1, "Growth"), TargetRow("Cash", p2, "Stable")>> :
         p1 \in {500, 600}, p2 \in {400, 498, 499, 501, 502} }
    \cup { <<TargetRow("Stocks", 600, "Growth"), TargetRow("Cash", 400, "Stable"),
             TargetRow(total, 1000, "")>> : total \in {"Total", "TOTAL"} }
    \cup { <<TargetRow("Stocks", 600, "Growth"), TargetRow("Cash", 300, "Growth")>>,
           <<TargetRow("Stocks", 1000, "Growth")>> }

PlanDcaTabs ==
    { stocks \o cash \o new_cash :
        stocks \in { <<>> } \cup
                   { <<DcaRow("Stocks", h[1], h[2])>> :
                        h \in { <<Num(0), Num(0)>>, <<Num(1), Num(0)>>,
                                <<Num(1), Num(300)>>, <<Num(2), Num(0)>>,
                                <<NotANumber, Num(300)>> } },
        cash \in { <<>>, <<DcaRow("Cash", Num(1), NotANumber)>> },
        new_cash \in { <<>>,
                       <<DcaRow("_FROM_NEW_CASH_", Num(0), Num(0 - 100))>>,
                       <<DcaRow("_FROM_NEW_CASH_", Num(0), Num(200))>>,
                       <<DcaRow("_FROM_NEW_CASH_", Num(0), Num(400))>>,
                       <<DcaRow("_FROM_NEW_CASH_", Num(0), Num(200)),
                         DcaRow("_FROM_NEW_CASH_", Num(0), Num(200))>> } }

InitPlan ==
    /\ NoCall /\ NoLocals /\ NoEffects
    /\ pc = "start"
    /\ rules = RunRules("Crypto")
    /\ data_tab \in { <<DataRow("A", Num(a)), DataRow("B", Num(b)), DataRow("Z", Num(z))>> :
                         a \in PlanValues, b \in PlanValues, z \in {0, HoldingUnit} }
    /\ targets_tab \in PlanTargets
    /\ \E dca \in { <<FALSE, <<>> >> } \cup { <<TRUE, tab>> : tab \in PlanDcaTabs } :
          dca_tab_exists = dca[1] /\ dca_tab = dca[2]

SpecPlan == InitPlan /\ [][NextRun]_vars

----------------------------------------------------------------------------
(* The specification of categorize_holding: a holding and a rule list are  *)
(* drawn, and the call is made.                                            *)

InitCat ==
    /\ holding \in Holdings
    /\ rules \in RuleLists
    /\ result = FellThrough
    /\ pc = "call"
    /\ NoWorkbook /\ NoLocals /\ NoEffects

Categorize ==
    /\ pc = "call"
    /\ result' = categorize_holding(holding, rules)
    /\ pc' = "called"
    /\ UNCHANGED <<holding, rules, workbook, locals, effects>>

NextCat == Categorize

SpecCat == InitCat /\ [][NextCat]_vars

(* The specification of the maturity tier: every date of the model, as a   *)
(* cell and in a description, under rules of every tier.                   *)

MaturityHoldings ==
    [Symbol : {Str(<<"A", "B">>), Str(<<"A", "*", "*">>)},
     Description : {Str(<<"C", "D", " ", d>>) : d \in DateShaped}
                   \cup {Str(<<"T", "R", "E", "A", "S", " ", "d+548">>),
                         Str(<<"A", "B", " ", "d+548">>), NaN},
     MaturityDate : {NoDate, NotADate, TzAwareDate} \cup ParseableDates]

MaturityRules ==
    { [RuleType |-> "EXACT_MATCH", Parameter |-> Str(<<"A", "B">>), MasterCategory |-> "Stocks"],
      [RuleType |-> "ENDS_WITH", Parameter |-> Str(<<"*", "*">>), MasterCategory |-> "Cash"],
      [RuleType |-> "CONTAINS_DESC", Parameter |-> Str(<<"c", "d">>), MasterCategory |-> "Cash"],
      [RuleType |-> "LEN_ALPHA", Parameter |-> Str(<<"1", "-", "2">>), MasterCategory |-> "Stocks"] }

InitMaturity ==
    /\ holding \in MaturityHoldings
    /\ rules \in UNION { [1..n -> MaturityRules] : n \in 0..MaxRules }
    /\ result = FellThrough
    /\ pc = "call"
    /\ NoWorkbook /\ NoLocals /\ NoEffects

SpecMaturity == InitMaturity /\ [][NextCat]_vars

----------------------------------------------------------------------------
(* Claims about categorize_holding.  What a claim says of a holding h and  *)
(* a rule list rs is written from the claim's words: the rules of a tier   *)
(* that match h, by their places in rs.                                    *)

Min(S) == CHOOSE i \in S : \A j \in S : i <= j

ExactMatches(h, rs) ==
    {i \in DOMAIN rs : /\ rs[i].RuleType = "EXACT_MATCH"
                       /\ rs[i].Parameter = Str(PyStr(h.Symbol))}

EndsWithMatches(h, rs) ==
    {i \in DOMAIN rs : /\ rs[i].RuleType = "ENDS_WITH"
                       /\ EndsWith(PyStr(h.Symbol), PyStr(rs[i].Parameter))}

ContainsDescMatches(h, rs) ==
    {i \in DOMAIN rs : /\ rs[i].RuleType = "CONTAINS_DESC"
                       /\ Contains(Upper(PyStr(rs[i].Parameter)),
                                   Upper(PyStr(h.Description)))}

\* a LEN_ALPHA parameter that reads "min-max"
WellFormedRange(parameter) ==
    /\ ~parameter.nan
    /\ \E k \in 1..Len(parameter.s) :
          /\ parameter.s[k] = "-"
          /\ IsInt(SubSeq(parameter.s, 1, k - 1))
          /\ IsInt(SubSeq(parameter.s, k + 1, Len(parameter.s)))

RangeMin(parameter) ==
    DigitsValue(SubSeq(parameter.s, 1,
                       Min({k \in 1..Len(parameter.s) : parameter.s[k] = "-"}) - 1))

RangeMax(parameter) ==
    DigitsValue(SubSeq(parameter.s,
                       Min({k \in 1..Len(parameter.s) : parameter.s[k] = "-"}) + 1,
                       Len(parameter.s)))

LenAlphaMatches(h, rs) ==
    {i \in DOMAIN rs : /\ rs[i].RuleType = "LEN_ALPHA"
                       /\ WellFormedRange(rs[i].Parameter)
                       /\ RangeMin(rs[i].Parameter) <= Len(PyStr(h.Symbol))
                       /\ Len(PyStr(h.Symbol)) <= RangeMax(rs[i].Parameter)
                       /\ IsAlpha(PyStr(h.Symbol))}

\* the maturity date of a holding, <<>> when it has none: the explicit one,
\* or without it the first date written in a TREAS or CD description
MaturityDateOf(h) ==
    LET text == Upper(PyStr(h.Description))
        dates == {i \in DOMAIN text : text[i] \in DateShaped}
    IN  IF h.MaturityDate # NoDate THEN <<h.MaturityDate>>
        ELSE IF /\ \/ Contains(<<"T", "R", "E", "A", "S">>, text)
                   \/ Contains(<<"C", "D">>, text)
                /\ dates # {}
             THEN <<text[Min(dates)]>>
             ELSE <<>>

HasWellFormedDate(h) ==
    MaturityDateOf(h) # <<>> /\ MaturityDateOf(h)[1] \in ParseableDates

HasMalformedDate(h) ==
    MaturityDateOf(h) # <<>> /\ MaturityDateOf(h)[1] \notin ParseableDates

\* the bucket of a date so many whole days away: years = days / 365.25, and
\* 4 * 365.25 = 1461
BucketOfDays(days) ==
    IF 4 * days <= 2 * 1461 THEN "Bonds - Short (0-2y)"
    ELSE IF 4 * days <= 10 * 1461 THEN "Bonds - Interm (3-10y)"
    ELSE "Bonds - Long (10+y)"

\* the category of the tiers after the maturity tier
AfterMaturity(h, rs) ==
    IF ContainsDescMatches(h, rs) # {}
    THEN rs[Min(ContainsDescMatches(h, rs))].MasterCategory
    ELSE IF LenAlphaMatches(h, rs) # {}
    THEN rs[Min(LenAlphaMatches(h, rs))].MasterCategory
    ELSE "Uncategorized"

\* the category of the earliest matching tier
Waterfall(h, rs) ==
    IF ExactMatches(h, rs) # {}
    THEN rs[Min(ExactMatches(h, rs))].MasterCategory
    ELSE IF EndsWithMatches(h, rs) # {}
    THEN rs[Min(EndsWithMatches(h, rs))].MasterCategory
    ELSE IF HasWellFormedDate(h)
    THEN BucketOfDays(DaysOut(MaturityDateOf(h)[1]))
    ELSE AfterMaturity(h, rs)

NoTierMatches(h, rs) ==
    /\ ExactMatches(h, rs) = {}
    /\ EndsWithMatches(h, rs) = {}
    /\ ~HasWellFormedDate(h)
    /\ ContainsDescMatches(h, rs) = {}
    /\ LenAlphaMatches(h, rs) = {}

Called == pc = "called"

\* C1 as stated: a holding whose symbol equals the Parameter of an
\* EXACT_MATCH rule gets that rule's Master Category, whichever of the
\* EXACT_MATCH rules it is.
C1_AnyExactMatchRuleWins ==
    Called =>
        \A i \in ExactMatches(holding, rules) :
            result.returned /\ result.value = rules[i].MasterCategory

\* C1 as amended: a holding whose symbol equals the Parameter of some
\* EXACT_MATCH rule gets the Master Category of the first such rule of the
\* list, whatever rules of the other tiers, maturity date or description
\* would also match and wherever that rule sits in the list.
C1_FirstExactMatchRuleWins ==
    Called /\ ExactMatches(holding, rules) # {} =>
        /\ result.returned
        /\ result.value = rules[Min(ExactMatches(holding, rules))].MasterCategory

\* C1: the exact match is the last rule of the list, behind an ENDS_WITH
\* rule of another category that matches too, on a holding with a
\* well-formed maturity date.
C1_Witness ==
    /\ Called
    /\ Len(rules) = 2
    /\ ExactMatches(holding, rules) = {2}
    /\ EndsWithMatches(holding, rules) = {1}
    /\ rules[1].MasterCategory # rules[2].MasterCategory
    /\ HasWellFormedDate(holding)
    /\ result.value = rules[2].MasterCategory

C3_MaturityBuckets ==
    Called /\ ExactMatches(holding, rules) = {} /\ EndsWithMatches(holding, rules) = {}
           /\ HasWellFormedDate(holding) =>
        LET days == DaysOut(MaturityDateOf(holding)[1]) IN
        /\ result.returned
        /\ 4 * days <= 2 * 1461 => result.value = "Bonds - Short (0-2y)"
        /\ 4 * days > 2 * 1461 /\ 4 * days <= 10 * 1461
              => result.value = "Bonds - Interm (3-10y)"
        /\ 4 * days > 10 * 1461 => result.value = "Bonds - Long (10+y)"
        /\ days = 548 => result.value = "Bonds - Short (0-2y)"
        /\ days = 1826 => result.value = "Bonds - Interm (3-10y)"
        /\ days = 5479 => result.value = "Bonds - Long (10+y)"

\* C3: a date 731 days out, read from a CD description for want of an
\* explicit date, is Interm although a CONTAINS_DESC rule matches too.
C3_Witness ==
    /\ Called
    /\ holding.MaturityDate = NoDate
    /\ MaturityDateOf(holding) = <<"d+731">>
    /\ ExactMatches(holding, rules) = {}
    /\ EndsWithMatches(holding, rules) = {}
    /\ ContainsDescMatches(holding, rules) # {}
    /\ result.value = "Bonds - Interm (3-10y)"

----------------------------------------------------------------------------
(* Claims about analyze_portfolio *)

Position(at) ==
    CASE at = "start" -> 0 [] at = "categorize" -> 1 [] at = "summarize" -> 2
      [] at = "validate" -> 3 [] at = "compute" -> 4 [] at = "write" -> 5
      [] at = "discover" -> 6 [] at = "monitor" -> 6 [] at = "rebalance" -> 7
      [] at = "finish" -> 8 [] at = "done" -> 9

Critical == "CRITICAL ERROR: Category Mismatch Found"

\* the run is past the step that ends at the position given
Past(at) == Position(pc) > Position(at)

\* the summaries have been computed
Computed == Past("compute") /\ Critical \notin printed

RECURSIVE SumOverKeys(_, _)
SumOverKeys(f, keys) ==
    IF keys = {} THEN 0
    ELSE LET k == CHOOSE k \in keys : TRUE
         IN  f[k] + SumOverKeys(f, keys \ {k})

TargetCategories ==
    {config_targets_df[i].MasterCategory : i \in DOMAIN config_targets_df}

\* C5: once the allocations are computed, the Current Amounts of
\* current_allocations add up to total_portfolio_value.
C5_AllocationsSumToTotal ==
    Past("summarize") =>
        SumOverKeys(current_allocations, DOMAIN current_allocations)
            = total_portfolio_value

\* C6: a holding of a category that is neither 'Uncategorized' nor a
\* category of Config_Targets makes the run print the critical diagnostic
\* and return with the writer never opened and no sheet written; and a run
\* whose writer was opened has every holding in 'Uncategorized' or in a
\* category of the targets.
C6_MismatchHaltsBeforeWriting ==
    Past("validate") =>
        LET stray == {i \in DOMAIN all_holdings_df :
                         all_holdings_df[i].MasterCategory
                             \notin TargetCategories \cup {"Uncategorized"}}
        IN  /\ stray # {} => /\ Critical \in printed
                             /\ pc = "done"
                             /\ writer = "none" /\ sheets = {}
                             /\ ~output_file.saved
            /\ writer # "none" => stray = {}

IsZero(ratio) == ratio.num = 0 /\ ratio.den # 0

\* C7 as stated: with a total of 0, Current Percent and Target Percent are
\* 0 in the master summary and in the reporting summary.
C7_AllPercentsZero ==
    Computed /\ total_portfolio_value = 0 =>
        /\ \A i \in DOMAIN summary_df :
              IsZero(summary_df[i].CurrentPercent) /\ summary_df[i].TargetPercent = 0
        /\ \A r \in DOMAIN reporting_summary_df :
              /\ IsZero(reporting_summary_df[r].CurrentPercent)
              /\ IsZero(reporting_summary_df[r].TargetPercent)

\* C7 as amended: with a total of 0, the computed percentages (Current
\* Percent of the master summary, Current Percent and Target Percent of the
\* reporting summary) are 0 and nothing is divided by 0, while Target
\* Percent of the master summary stays the percentage of Config_Targets.
C7_ComputedPercentsZero ==
    Computed /\ total_portfolio_value = 0 =>
        /\ DOMAIN summary_df = DOMAIN config_targets_df
        /\ \A i \in DOMAIN summary_df :
              /\ IsZero(summary_df[i].CurrentPercent)
              /\ summary_df[i].TargetPercent = config_targets_df[i].TargetPercent
        /\ \A r \in DOMAIN reporting_summary_df :
              /\ IsZero(reporting_summary_df[r].CurrentPercent)
              /\ IsZero(reporting_summary_df[r].TargetPercent)
        /\ pc = "write" => "An unexpected error occurred" \notin printed

\* C7: the holdings cancel out to a total of 0, a category holds money and
\* has a target of 60%.
C7_Witness ==
    /\ pc = "write"
    /\ total_portfolio_value = 0
    /\ \E i \in DOMAIN summary_df :
          /\ summary_df[i].CurrentAmount # 0
          /\ summary_df[i].TargetPercent = 600
          /\ IsZero(summary_df[i].CurrentPercent)

TargetSumWarning == "WARNING: Target percentages"

\* the sum of Target Percent over the rows of the tab that are no 'total' row
SumOfTargets ==
    LET rows == SelectSeq(targets_tab,
                          LAMBDA r : r.MasterCategory \notin {"total", "Total", "TOTAL"})
    IN  Sum([i \in DOMAIN rows |-> rows[i].TargetPercent])

DcaOf(category) ==
    SelectSeq(config_dca_df, LAMBDA d : d.MasterCategory = category)

\* MONITOR mode, the projections have been made
Projected == dca_tab_exists /\ Past("monitor") /\ Critical \notin printed

\* C9: in MONITOR mode every underweight category (Difference < 0) has its
\* projection with Amount Under Target = -Difference > 0, Required Monthly
\* Investment = Amount Under Target / (horizon * 12) for a horizon > 0 and
\* 0 otherwise (a category without Config_DCA entry has horizon 0), and
\* Monthly Shortfall/Surplus = Monthly Contribution - Required Monthly
\* Investment; no other category has a projection.
C9_Projections ==
    Projected =>
        /\ {underweight_df[i].MasterCategory : i \in DOMAIN underweight_df}
              = {summary_df[i].MasterCategory :
                    i \in {j \in DOMAIN summary_df : summary_df[j].Difference < 0}}
        /\ \A i \in DOMAIN underweight_df :
              LET r == underweight_df[i]
                  entries == DcaOf(r.MasterCategory)
              IN  /\ \E j \in DOMAIN summary_df :
                        /\ summary_df[j].MasterCategory = r.MasterCategory
                        /\ summary_df[j].Difference = r.Difference
                  /\ r.AmountUnderTarget = 0 - r.Difference
                  /\ r.AmountUnderTarget > 0
                  /\ IF entries = <<>>
                     THEN r.TimeHorizon = 0 /\ r.MonthlyContribution = 0
                     ELSE \E j \in DOMAIN entries :
                             /\ r.TimeHorizon = entries[j].TimeHorizon
                             /\ r.MonthlyContribution = entries[j].MonthlyContribution
                  /\ r.TimeHorizon > 0 =>
                        r.RequiredMonthlyInvestment * (r.TimeHorizon * 12)
                            = r.AmountUnderTarget
                  /\ r.TimeHorizon <= 0 => r.RequiredMonthlyInvestment = 0
                  /\ r.MonthlyShortfallSurplus
                        = r.MonthlyContribution - r.RequiredMonthlyInvestment
        /\ "Output_Projections" \in sheets <=> underweight_df # <<>>

\* C9: two underweight categories, one with a horizon of 2 years and a
\* contribution short of the requirement, one without Config_DCA entry.
C9_Witness ==
    /\ Projected
    /\ \E i, j \in DOMAIN underweight_df :
          /\ underweight_df[i].TimeHorizon = 2
          /\ underweight_df[i].RequiredMonthlyInvestment > 0
          /\ DcaOf(underweight_df[j].MasterCategory) = <<>>
          /\ underweight_df[j].RequiredMonthlyInvestment = 0
          /\ underweight_df[j].MonthlyShortfallSurplus = 0

\* the total Required Monthly Investment over the underweight categories
TotalRequired ==
    LET under == SelectSeq(Projections(summary_df, config_dca_df),
                           LAMBDA r : r.Difference < 0)
    IN  Sum([i \in DOMAIN under |->
               IF under[i].TimeHorizon > 0
               THEN (0 - under[i].Difference) \div (under[i].TimeHorizon * 12)
               ELSE 0])

NewCash ==
    Sum([i \in DOMAIN DcaOf("_FROM_NEW_CASH_") |->
           DcaOf("_FROM_NEW_CASH_")[i].MonthlyContribution])

RowsOf(plan, action) == SelectSeq(plan, LAMBDA row : row.Action = action)

\* C10: a MONITOR run that computed its summaries ends with a rebalancing
\* plan exactly when the total Required Monthly Investment exceeds the sum
\* of the _FROM_NEW_CASH_ contributions; the plan has an INVEST row per
\* underweight category with its required amount, then SOURCE rows with
\* the overweight categories by falling difference, and last one SHORTFALL
\* row of the total less the new cash, which is > 0.
C10_PlanIffShortOfCash ==
    pc = "done" /\ dca_tab_exists /\ Computed =>
        /\ "Output_RebalancingPlan" \in output_file.sheets <=> TotalRequired > NewCash
        /\ "Output_RebalancingPlan" \in output_file.sheets =>
              LET invest == RowsOf(rebalancing_plan, "INVEST")
                  source == RowsOf(rebalancing_plan, "SOURCE")
                  last == rebalancing_plan[Len(rebalancing_plan)]
              IN  /\ Len(invest) = Len(underweight_df)
                  /\ \A i \in DOMAIN invest :
                        /\ rebalancing_plan[i] = invest[i]
                        /\ invest[i].Category = underweight_df[i].MasterCategory
                        /\ invest[i].MonthlyPlan.amount
                              = underweight_df[i].RequiredMonthlyInvestment
                  /\ {source[i].Category : i \in 2..Len(source)}
                        = {summary_df[i].MasterCategory :
                              i \in {j \in DOMAIN summary_df : summary_df[j].Difference > 0}}
                  /\ \A i, j \in 2..Len(source) : i < j =>
                        \A a, b \in DOMAIN summary_df :
                            /\ summary_df[a].MasterCategory = source[i].Category
                            /\ summary_df[b].MasterCategory = source[j].Category
                            => summary_df[a].Difference >= summary_df[b].Difference
                  /\ last.Action = "SHORTFALL"
                  /\ Len(RowsOf(rebalancing_plan, "SHORTFALL")) = 1
                  /\ last.MonthlyPlan.amount = TotalRequired - NewCash
                  /\ last.MonthlyPlan.amount > 0

Unexpected == "An unexpected error occurred"

SummarySheets == {"Output_MasterSummary", "Output_GrowthVsStable"}

\* C11: a run that ends without the SUCCESS message has printed a
\* diagnostic and has left no output file; an output file is saved only by
\* a run that printed SUCCESS, and with all the tabs the run wrote.
C11_NoPartialOutput ==
    pc = "done" =>
        /\ "SUCCESS" \notin printed =>
              /\ Critical \in printed \/ Unexpected \in printed
              /\ ~output_file.saved
        /\ output_file.saved =>
              /\ "SUCCESS" \in printed
              /\ SummarySheets \subseteq output_file.sheets

NoneUnderweight == \A i \in DOMAIN summary_df : summary_df[i].Difference >= 0

\* C12: a MONITOR run that computed its summaries and found no category
\* with Difference $ < 0 ends with the SUCCESS message and a saved file
\* that has the two summaries, no projections tab and no rebalancing-plan
\* tab.
C12_NoneUnderweightSucceeds ==
    pc = "done" /\ dca_tab_exists /\ Computed /\ NoneUnderweight =>
        /\ "SUCCESS" \in printed
        /\ Unexpected \notin printed
        /\ output_file.saved
        /\ SummarySheets \subseteq output_file.sheets
        /\ "Output_Projections" \notin output_file.sheets
        /\ "Output_RebalancingPlan" \notin output_file.sheets

====
